---- MODULE Spec2Model ----
(***************************************************************************)
(* State-machine model of the Pokemon memory game: the client              *)
(* (frontend/src/App.js) and the result store (backend/server.js).  The    *)
(* React state of the App component, the rows of game_results and the HTTP *)
(* messages in flight are the model's state; every event handler, every    *)
(* request handler and every setTimeout or database callback is one        *)
(* atomic action (JavaScript runs each of them to completion and React     *)
(* re-renders before the next event is dispatched, so a handler always     *)
(* closes over the latest committed state).  A setTimeout callback closes  *)
(* over the values of the click that scheduled it; those values travel in  *)
(* the timer record.                                                       *)
(***************************************************************************)
EXTENDS Integers, Sequences, FiniteSets, TLC

(* ------------------------------ bounds -------------------------------- *)
\* Number of entries of POKEMON_IDS that are dealt (the source deals all 8).
NumPairs == 2
\* Length of a run of the client, counted in New Game clicks, setTimeout
\* calls and POST requests.
MaxEvents == 3
\* Number of requests that sessions other than the client send to the store.
MaxRequests == 2

(* --------------------------- program constants ------------------------ *)
POKEMON_IDS == SubSeq(<<1, 4, 7, 25, 39, 52, 54, 133>>, 1, NumPairs)
MatchDelay == 500
MismatchDelay == 1000
MatchReward == 10

VARIABLES
  cards,          \* useState([]) : sequence of card records, in board order
  flippedCards,   \* useState([]) : sequence of card ids
  matchedPairs,   \* useState([]) : sequence of pokemon ids
  score,          \* useState(0)
  tries,          \* useState(0)
  gameOver,       \* useState(false)
  showNameInput,  \* useState(false)
  timers,         \* outstanding setTimeout callbacks, in scheduling order
  budget,         \* events (see MaxEvents, MaxRequests) left in the run
  playerName,     \* useState('') : sequence of characters
  leaderboard,    \* useState([]) : sequence of rows
  notice,         \* text of the last alert() shown, "" when there was none
  requests,       \* HTTP requests on their way to the server
  responses,      \* HTTP responses on their way back
  dbq,            \* statements handed to db.run / db.all, not yet executed
  rows,           \* table game_results, in insertion order
  sqlite_sequence \* AUTOINCREMENT counter of game_results

vars == <<cards, flippedCards, matchedPairs, score, tries, gameOver,
          showNameInput, timers, budget, playerName, leaderboard, notice,
          requests, responses, dbq, rows, sqlite_sequence>>

board == <<cards, flippedCards, matchedPairs, score, tries, gameOver>>

\* the client state outside the board and the save form switch
form == <<playerName, leaderboard, notice>>

\* the messages in flight
net == <<requests, responses>>

\* the server side
store == <<dbq, rows, sqlite_sequence>>

(* ------------------------------ helpers ------------------------------- *)
\* Array.prototype.includes
includes(arr, x) == \E i \in 1..Len(arr) : arr[i] = x

\* Array.prototype.find(c => c.id === cardId)
find(cs, cardId) ==
  cs[CHOOSE i \in 1..Len(cs) :
       /\ cs[i].id = cardId
       /\ \A j \in 1..(i - 1) : cs[j].id # cardId]

\* remove the i-th element of a sequence
RemoveAt(s, i) == SubSeq(s, 1, i - 1) \o SubSeq(s, i + 1, Len(s))

\* [...POKEMON_IDS, ...POKEMON_IDS]
pokemonPairs == POKEMON_IDS \o POKEMON_IDS

\* pokemonPairs.map((pokemon, index) => ({id: index, pokemonId: pokemon, ...}))
\* (the image URL is a function of pokemonId and is not carried)
freshCards ==
  [index \in 1..Len(pokemonPairs) |->
     [id |-> index - 1, pokemonId |-> pokemonPairs[index],
      isFlipped |-> FALSE, isMatched |-> FALSE]]

\* .sort(() => Math.random() - 0.5) : a rearrangement of the array.  Two
\* outcomes are drawn: the array as it is, and the array rotated by one place.
Shuffles == { freshCards, Tail(freshCards) \o <<Head(freshCards)>> }

CardIds == 0..(Len(pokemonPairs) - 1)

(* ------------------------------ Init ---------------------------------- *)
\* useState initial values followed by the mount effect: initializeGame() and
\* fetchLeaderboard(), the latter answered from the table as it is created,
\* without rows.
Init ==
  /\ cards \in Shuffles
  /\ flippedCards = <<>>
  /\ matchedPairs = <<>>
  /\ score = 0
  /\ tries = 0
  /\ gameOver = FALSE
  /\ showNameInput = FALSE
  /\ timers = <<>>
  /\ budget = MaxEvents
  /\ playerName = <<>>
  /\ leaderboard = <<>>
  /\ notice = ""
  /\ requests = <<>>
  /\ responses = <<>>
  /\ dbq = <<>>
  /\ rows = <<>>
  /\ sqlite_sequence = 0

(* --------------------------- initializeGame --------------------------- *)
\* mutant: New Game leaves the score as it is
initializeGame_keepsScore ==
  /\ budget > 0
  /\ budget' = budget - 1
  /\ cards' \in Shuffles
  /\ flippedCards' = <<>>
  /\ matchedPairs' = <<>>
  /\ tries' = 0
  /\ gameOver' = FALSE
  /\ showNameInput' = FALSE
  /\ UNCHANGED <<score, timers, form, net, store>>

\* mutant: New Game leaves the tries counter as it is
initializeGame_keepsTries ==
  /\ budget > 0
  /\ budget' = budget - 1
  /\ cards' \in Shuffles
  /\ flippedCards' = <<>>
  /\ matchedPairs' = <<>>
  /\ score' = 0
  /\ tries' = tries
  /\ gameOver' = FALSE
  /\ showNameInput' = FALSE
  /\ UNCHANGED <<timers, form, net, store>>

\* New Game button.  Outstanding timeouts are not cancelled.
initializeGame ==
  /\ budget > 0
  /\ budget' = budget - 1
  /\ cards' \in Shuffles
  /\ flippedCards' = <<>>
  /\ matchedPairs' = <<>>
  /\ score' = 0
  /\ tries' = 0
  /\ gameOver' = FALSE
  /\ showNameInput' = FALSE
  /\ UNCHANGED <<timers, form, net, store>>

(* --------------------------- handleCardClick -------------------------- *)
\* mutant: the early-return test without the matchedPairs condition
ignoreClick_withoutMatchedPairs(card) ==
  \/ card.isFlipped
  \/ card.isMatched
  \/ Len(flippedCards) = 2

\* mutant: the early-return test without the two-cards-pending condition
ignoreClick_noPendingLimit(card) ==
  \/ card.isFlipped
  \/ card.isMatched
  \/ includes(matchedPairs, card.pokemonId)

\* the early-return test of handleCardClick
ignoreClick(card) ==
  \/ card.isFlipped
  \/ card.isMatched
  \/ Len(flippedCards) = 2
  \/ includes(matchedPairs, card.pokemonId)

\* mutant: every card of the clicked card's symbol is flipped
flipCard_bySymbol(cs, cardId) ==
  [k \in 1..Len(cs) |->
     IF cs[k].pokemonId = find(cs, cardId).pokemonId
     THEN [cs[k] EXCEPT !.isFlipped = TRUE]
     ELSE cs[k]]

\* cards.map(c => c.id === cardId ? {...c, isFlipped: true} : c)
flipCard(cs, cardId) ==
  [k \in 1..Len(cs) |->
     IF cs[k].id = cardId THEN [cs[k] EXCEPT !.isFlipped = TRUE] ELSE cs[k]]

\* the closure handed to setTimeout by a click
Timeout(kind, delay, updatedCards, pokemonId, newFlippedCards, newMatchedPairs) ==
  [kind |-> kind, remaining |-> delay, updatedCards |-> updatedCards,
   pokemonId |-> pokemonId, newFlippedCards |-> newFlippedCards,
   newMatchedPairs |-> newMatchedPairs]

\* mutant: tries is counted only when the pair does not match
checkForMatch_triesOnMismatch(newFlippedCards, updatedCards) ==
  LET firstCard == find(cards, newFlippedCards[1])
      secondCard == find(updatedCards, newFlippedCards[2])
  IN
  /\ budget' = budget - 1
  /\ IF firstCard.pokemonId = secondCard.pokemonId
     THEN LET newMatchedPairs == Append(matchedPairs, firstCard.pokemonId)
          IN
          /\ tries' = tries
          /\ matchedPairs' = newMatchedPairs
          /\ score' = score + MatchReward
          /\ timers' = Append(timers,
               Timeout("match", MatchDelay, updatedCards, firstCard.pokemonId,
                       newFlippedCards, newMatchedPairs))
     ELSE /\ tries' = tries + 1
          /\ timers' = Append(timers,
               Timeout("mismatch", MismatchDelay, updatedCards,
                       firstCard.pokemonId, newFlippedCards, matchedPairs))
          /\ UNCHANGED <<matchedPairs, score>>

\* the body of `if (newFlippedCards.length === 2)`: count the try, compare the
\* two cards and schedule the delayed resolution
checkForMatch(newFlippedCards, updatedCards) ==
  LET firstCard == find(cards, newFlippedCards[1])
      secondCard == find(updatedCards, newFlippedCards[2])
  IN
  /\ tries' = tries + 1
  /\ budget' = budget - 1
  /\ IF firstCard.pokemonId = secondCard.pokemonId
     THEN LET newMatchedPairs == Append(matchedPairs, firstCard.pokemonId)
          IN
          /\ matchedPairs' = newMatchedPairs
          /\ score' = score + MatchReward
          /\ timers' = Append(timers,
               Timeout("match", MatchDelay, updatedCards, firstCard.pokemonId,
                       newFlippedCards, newMatchedPairs))
     ELSE /\ timers' = Append(timers,
               Timeout("mismatch", MismatchDelay, updatedCards,
                       firstCard.pokemonId, newFlippedCards, matchedPairs))
          /\ UNCHANGED <<matchedPairs, score>>

\* mutant: a matching second reveal empties flippedCards at once
handleCardClick_clearsOnMatch(cardId) ==
  LET card == find(cards, cardId)
      newFlippedCards == Append(flippedCards, cardId)
      updatedCards == flipCard(cards, cardId)
  IN
  IF ignoreClick(card)
  THEN UNCHANGED vars
  ELSE
    /\ Len(newFlippedCards) = 2 => budget > 0
    /\ flippedCards' =
         IF /\ Len(newFlippedCards) = 2
            /\ find(cards, newFlippedCards[1]).pokemonId = card.pokemonId
         THEN <<>>
         ELSE newFlippedCards
    /\ cards' = updatedCards
    /\ UNCHANGED <<gameOver, showNameInput, form, net, store>>
    /\ IF Len(newFlippedCards) = 2
       THEN checkForMatch(newFlippedCards, updatedCards)
       ELSE UNCHANGED <<tries, matchedPairs, score, timers, budget>>

handleCardClick(cardId) ==
  LET card == find(cards, cardId)
      newFlippedCards == Append(flippedCards, cardId)
      updatedCards == flipCard(cards, cardId)
  IN
  IF ignoreClick(card)
  THEN UNCHANGED vars
  ELSE
    /\ Len(newFlippedCards) = 2 => budget > 0
    /\ flippedCards' = newFlippedCards
    /\ cards' = updatedCards
    /\ UNCHANGED <<gameOver, showNameInput, form, net, store>>
    /\ IF Len(newFlippedCards) = 2
       THEN checkForMatch(newFlippedCards, updatedCards)
       ELSE UNCHANGED <<tries, matchedPairs, score, timers, budget>>

(* --------------------------- setTimeout callbacks --------------------- *)
\* updatedCards.map(c => c.pokemonId === firstCard.pokemonId
\*                         ? {...c, isMatched: true, isFlipped: true} : c)
matchedCards(updatedCards, pokemonId) ==
  [k \in 1..Len(updatedCards) |->
     IF updatedCards[k].pokemonId = pokemonId
     THEN [updatedCards[k] EXCEPT !.isMatched = TRUE, !.isFlipped = TRUE]
     ELSE updatedCards[k]]

\* mutant: the flip-back turns over only the first card of the pair
resetCards_firstOnly(updatedCards, newFlippedCards) ==
  [k \in 1..Len(updatedCards) |->
     IF updatedCards[k].id = newFlippedCards[1]
     THEN [updatedCards[k] EXCEPT !.isFlipped = FALSE]
     ELSE updatedCards[k]]

\* updatedCards.map(c => newFlippedCards.includes(c.id)
\*                         ? {...c, isFlipped: false} : c)
resetCards(updatedCards, newFlippedCards) ==
  [k \in 1..Len(updatedCards) |->
     IF includes(newFlippedCards, updatedCards[k].id)
     THEN [updatedCards[k] EXCEPT !.isFlipped = FALSE]
     ELSE updatedCards[k]]

\* The browser runs the callbacks that are due, earliest scheduled first.
Due(i) ==
  /\ i \in 1..Len(timers)
  /\ timers[i].remaining = 0
  /\ \A j \in 1..(i - 1) : timers[j].remaining # 0

\* the callback of the match branch
matchTimeout(i) ==
  /\ Due(i)
  /\ timers[i].kind = "match"
  /\ cards' = matchedCards(timers[i].updatedCards, timers[i].pokemonId)
  /\ flippedCards' = <<>>
  /\ IF Len(timers[i].newMatchedPairs) = Len(POKEMON_IDS)
     THEN gameOver' = TRUE /\ showNameInput' = TRUE
     ELSE UNCHANGED <<gameOver, showNameInput>>
  /\ timers' = RemoveAt(timers, i)
  /\ UNCHANGED <<matchedPairs, score, tries, budget, form, net, store>>

\* mutant: the flip-back turns the cards over and leaves the pair pending
mismatchTimeout_keepsPending(i) ==
  /\ Due(i)
  /\ timers[i].kind = "mismatch"
  /\ cards' = resetCards(timers[i].updatedCards, timers[i].newFlippedCards)
  /\ timers' = RemoveAt(timers, i)
  /\ UNCHANGED <<flippedCards, matchedPairs, score, tries, gameOver,
                 showNameInput, budget, form, net, store>>

\* mutant: the flip-back takes the score back to zero
mismatchTimeout_resetsScore(i) ==
  /\ Due(i)
  /\ timers[i].kind = "mismatch"
  /\ cards' = resetCards(timers[i].updatedCards, timers[i].newFlippedCards)
  /\ flippedCards' = <<>>
  /\ score' = 0
  /\ timers' = RemoveAt(timers, i)
  /\ UNCHANGED <<matchedPairs, tries, gameOver, showNameInput, budget,
                 form, net, store>>

\* the callback of the mismatch branch
mismatchTimeout(i) ==
  /\ Due(i)
  /\ timers[i].kind = "mismatch"
  /\ cards' = resetCards(timers[i].updatedCards, timers[i].newFlippedCards)
  /\ flippedCards' = <<>>
  /\ timers' = RemoveAt(timers, i)
  /\ UNCHANGED <<matchedPairs, score, tries, gameOver, showNameInput, budget,
                 form, net, store>>

\* Time passes by the smaller of the two delays; a callback that is due runs
\* before time passes again.
TickStep == MatchDelay

Tick ==
  /\ timers # <<>>
  /\ \A i \in 1..Len(timers) : timers[i].remaining # 0
  /\ timers' = [i \in 1..Len(timers) |->
                  [timers[i] EXCEPT !.remaining =
                     IF @ > TickStep THEN @ - TickStep ELSE 0]]
  /\ UNCHANGED <<cards, flippedCards, matchedPairs, score, tries, gameOver,
                 showNameInput, budget, form, net, store>>

(* --------------------------- JavaScript values ------------------------ *)
\* The values a JSON body or a table cell can hold.  A string is a sequence
\* of characters.
Undefined == [t |-> "undefined"]
Null == [t |-> "null"]
Num(n) == [t |-> "number", n |-> n]
Str(s) == [t |-> "string", s |-> s]

\* String.prototype.trim : strip the white space at both ends
RECURSIVE trimStart(_)
trimStart(s) == IF s # <<>> /\ Head(s) = " " THEN trimStart(Tail(s)) ELSE s

RECURSIVE trimEnd(_)
trimEnd(s) ==
  IF s # <<>> /\ s[Len(s)] = " " THEN trimEnd(SubSeq(s, 1, Len(s) - 1)) ELSE s

trim(s) == trimEnd(trimStart(s))

\* ToBoolean, as applied by `!x` and `x || y`
truthy(v) ==
  CASE v.t = "undefined" -> FALSE
    [] v.t = "null" -> FALSE
    [] v.t = "number" -> v.n # 0
    [] v.t = "string" -> v.s # <<>>

\* x || y
or(x, y) == IF truthy(x) THEN x ELSE y

\* the characters the player can type, and the texts that are typed
Names == { <<>>, <<" ">>, <<"A">>, <<" ", "A">> }

POST_RESULTS == "POST /api/results"
GET_RESULTS == "GET /api/results"
GET_LEADERBOARD == "GET /api/leaderboard"

\* an HTTP request: who sent it, method and path, JSON body
Request(from, path, body) == [from |-> from, path |-> path, body |-> body]

\* an HTTP response: whom it goes to, the request it answers, status, JSON
Response(to, path, status, data) ==
  [to |-> to, path |-> path, status |-> status, data |-> data]

\* mutant: every status below 600 resolves
resolves_anyStatus(response) == response.status >= 200 /\ response.status < 600

\* axios resolves on a 2xx status and rejects on every other
resolves(response) == response.status >= 200 /\ response.status < 300

(* ------------------------------ save form ----------------------------- *)
\* the name input and the Save Score button are rendered
formShown == gameOver /\ showNameInput

\* onChange of the name input
setPlayerName(value) ==
  /\ formShown
  /\ value # playerName
  /\ playerName' = value
  /\ UNCHANGED <<board, showNameInput, timers, budget, leaderboard, notice,
                 net, store>>

\* mutant: matches is the number of matched pairs
resultBody_exactCount ==
  [player_name |-> Str(playerName), score |-> Num(score), tries |-> Num(tries),
   matches |-> Num(Len(matchedPairs))]

\* the body of the POST that saveResult sends
resultBody ==
  [player_name |-> Str(playerName), score |-> Num(score), tries |-> Num(tries),
   matches |-> Num(Len(matchedPairs) + 1)]

\* mutant: the name is tested without trim()
saveResult_withoutTrim ==
  /\ formShown
  /\ IF playerName = <<>>
     THEN /\ notice' = "Please enter your name"
          /\ UNCHANGED <<requests, budget>>
     ELSE /\ budget > 0
          /\ budget' = budget - 1
          /\ requests' = Append(requests,
                                Request("app", POST_RESULTS, resultBody))
          /\ UNCHANGED notice
  /\ UNCHANGED <<board, showNameInput, timers, playerName, leaderboard,
                 responses, store>>

\* Save Score button (or Enter in the name input), up to the await
saveResult ==
  /\ formShown
  /\ IF trim(playerName) = <<>>
     THEN /\ notice' = "Please enter your name"
          /\ UNCHANGED <<requests, budget>>
     ELSE /\ budget > 0
          /\ budget' = budget - 1
          /\ requests' = Append(requests,
                                Request("app", POST_RESULTS, resultBody))
          /\ UNCHANGED notice
  /\ UNCHANGED <<board, showNameInput, timers, playerName, leaderboard,
                 responses, store>>

\* mutant: a saved result ends the game-over display instead of hiding the form
saveResultThen_clearsGameOver(i) ==
  /\ i \in 1..Len(responses)
  /\ responses[i].to = "app"
  /\ responses[i].path = POST_RESULTS
  /\ resolves(responses[i])
  /\ notice' = "Result saved successfully!"
  /\ gameOver' = FALSE
  /\ requests' = Append(requests, Request("app", GET_LEADERBOARD, Undefined))
  /\ responses' = RemoveAt(responses, i)
  /\ UNCHANGED <<cards, flippedCards, matchedPairs, score, tries,
                 showNameInput, timers, budget, playerName, leaderboard, store>>

\* saveResult after the await, when the POST resolved; fetchLeaderboard() sends
\* its GET
saveResultThen(i) ==
  /\ i \in 1..Len(responses)
  /\ responses[i].to = "app"
  /\ responses[i].path = POST_RESULTS
  /\ resolves(responses[i])
  /\ notice' = "Result saved successfully!"
  /\ showNameInput' = FALSE
  /\ requests' = Append(requests, Request("app", GET_LEADERBOARD, Undefined))
  /\ responses' = RemoveAt(responses, i)
  /\ UNCHANGED <<board, timers, budget, playerName, leaderboard, store>>

\* saveResult after the await, when the POST was rejected: the catch block
saveResultCatch(i) ==
  /\ i \in 1..Len(responses)
  /\ responses[i].to = "app"
  /\ responses[i].path = POST_RESULTS
  /\ ~resolves(responses[i])
  /\ notice' = "Error saving result. Please try again."
  /\ responses' = RemoveAt(responses, i)
  /\ UNCHANGED <<board, showNameInput, timers, budget, playerName, leaderboard,
                 requests, store>>

\* fetchLeaderboard after the await: setLeaderboard(response.data), or the
\* catch block, which only logs
fetchLeaderboardDone(i) ==
  /\ i \in 1..Len(responses)
  /\ responses[i].to = "app"
  /\ responses[i].path = GET_LEADERBOARD
  /\ leaderboard' =
       IF resolves(responses[i]) THEN responses[i].data ELSE leaderboard
  /\ responses' = RemoveAt(responses, i)
  /\ UNCHANGED <<board, showNameInput, timers, budget, playerName, notice,
                 requests, store>>

(* ------------------------------ result store ------------------------- *)
\* decimal digits of a natural number, as SQLite writes an integer bound to a
\* TEXT column
DigitChars == <<"0", "1", "2", "3", "4", "5", "6", "7", "8", "9">>

RECURSIVE digits(_)
digits(n) ==
  IF n < 10 THEN <<DigitChars[n + 1]>>
  ELSE digits(n \div 10) \o <<DigitChars[(n % 10) + 1]>>

isDigit(c) == \E d \in 1..10 : DigitChars[d] = c

digitValue(c) == (CHOOSE d \in 1..10 : DigitChars[d] = c) - 1

RECURSIVE parseDigits(_)
parseDigits(s) ==
  IF s = <<>> THEN 0
  ELSE 10 * parseDigits(SubSeq(s, 1, Len(s) - 1)) + digitValue(s[Len(s)])

\* column affinity TEXT (player_name): a number is stored as its text
toText(v) == IF v.t = "number" THEN Str(digits(v.n)) ELSE v

\* column affinity INTEGER (score, tries, matches): a text that is a
\* well-formed integer is stored as that integer, any other text as it is
toInteger(v) ==
  IF v.t = "string" /\ v.s # <<>> /\ \A k \in 1..Len(v.s) : isDigit(v.s[k])
  THEN Num(parseDigits(v.s))
  ELSE v

\* CURRENT_TIMESTAMP has a resolution of one second and does not run
\* backwards: a new row is stamped with the second of the latest row or with
\* a later one.
latest(rs) ==
  IF rs = <<>> THEN 0
  ELSE CHOOSE c \in { rs[k].created_at : k \in 1..Len(rs) } :
         \A k \in 1..Len(rs) : rs[k].created_at <= c

CURRENT_TIMESTAMP(rs) == { latest(rs), latest(rs) + 1 }

\* SQLite's sort order of stored values: NULL, then numbers, then texts; texts
\* compare byte by byte
storageClass(v) ==
  CASE v.t = "null" -> 0
    [] v.t = "number" -> 1
    [] v.t = "string" -> 2

\* the characters that occur, in the order of their byte values
Alphabet ==
  <<" ", "0", "1", "2", "3", "4", "5", "6", "7", "8", "9", "A", "m", "n", "o",
    "s", "u", "x", "y">>

byte(c) == CHOOSE k \in 1..Len(Alphabet) : Alphabet[k] = c

RECURSIVE textLess(_, _)
textLess(a, b) ==
  IF b = <<>> THEN FALSE
  ELSE IF a = <<>> THEN TRUE
  ELSE IF byte(Head(a)) # byte(Head(b)) THEN byte(Head(a)) < byte(Head(b))
  ELSE textLess(Tail(a), Tail(b))

cellLess(a, b) ==
  IF storageClass(a) # storageClass(b) THEN storageClass(a) < storageClass(b)
  ELSE CASE a.t = "null" -> FALSE
         [] a.t = "number" -> a.n < b.n
         [] a.t = "string" -> textLess(a.s, b.s)

\* mutant: the oldest row comes first
recentBefore_oldestFirst(r1, r2) == r1.created_at < r2.created_at

\* ORDER BY created_at DESC : r1 has to come before r2
recentBefore(r1, r2) == r1.created_at > r2.created_at

\* mutant: among equal scores the row with more tries comes first
leaderboardBefore_moreTriesFirst(r1, r2) ==
  \/ cellLess(r2.score, r1.score)
  \/ /\ ~cellLess(r1.score, r2.score)
     /\ cellLess(r2.tries, r1.tries)

\* ORDER BY score DESC, tries ASC : r1 has to come before r2
leaderboardBefore(r1, r2) ==
  \/ cellLess(r2.score, r1.score)
  \/ /\ ~cellLess(r1.score, r2.score)
     /\ cellLess(r1.tries, r2.tries)

RecentLimit == 50
LeaderboardLimit == 10

\* the orders of the rows with index in S that respect `before`: a row that
\* no other row has to precede comes first, then the rest in such an order
RECURSIVE ordersOf(_, _, _)
ordersOf(rs, before, S) ==
  IF S = {} THEN { <<>> }
  ELSE UNION { { <<rs[a]>> \o t : t \in ordersOf(rs, before, S \ {a}) } :
               a \in { x \in S : \A y \in S : ~before[y, x] } }

\* SELECT * ... ORDER BY : the rows in an order that respects the ORDER BY
\* terms, given as before[a, b] = "row a has to come before row b".  SQL
\* leaves the order of rows that tie on all terms open.
orderBy(rs, before) == ordersOf(rs, before, 1..Len(rs))

\* LIMIT n
limit(s, n) == SubSeq(s, 1, IF Len(s) < n THEN Len(s) ELSE n)

\* a statement handed to the database together with its callback's response
Statement(sql, params, request) ==
  [sql |-> sql, params |-> params, to |-> request.from, path |-> request.path]

\* mutant: the test of the request body by the falsiness of every field
missingFields_falsyNumbers(body) ==
  \/ ~truthy(body.player_name)
  \/ ~truthy(body.score)
  \/ ~truthy(body.tries)
  \/ ~truthy(body.matches)

\* mutant: the test of the request body without the test of matches
missingFields_withoutMatches(body) ==
  \/ ~truthy(body.player_name)
  \/ body.score = Undefined
  \/ body.tries = Undefined

\* !player_name || score === undefined || tries === undefined
\*   || matches === undefined
missingFields(body) ==
  \/ ~truthy(body.player_name)
  \/ body.score = Undefined
  \/ body.tries = Undefined
  \/ body.matches = Undefined

\* app.post('/api/results') up to db.run
postResults(i) ==
  /\ i \in 1..Len(requests)
  /\ requests[i].path = POST_RESULTS
  /\ LET player_name == requests[i].body.player_name
         score_ == requests[i].body.score
         tries_ == requests[i].body.tries
         matches == requests[i].body.matches
     IN
     IF missingFields(requests[i].body)
     THEN /\ responses' = Append(responses,
               Response(requests[i].from, POST_RESULTS, 400,
                        [error |-> "Missing required fields"]))
          /\ UNCHANGED dbq
     ELSE /\ dbq' = Append(dbq,
               Statement("INSERT",
                         <<or(player_name, Str(<<"A", "n", "o", "n", "y", "m",
                                                 "o", "u", "s">>)),
                           score_, tries_, matches>>,
                         requests[i]))
          /\ UNCHANGED responses
  /\ requests' = RemoveAt(requests, i)
  /\ UNCHANGED <<board, showNameInput, timers, budget, form, rows,
                 sqlite_sequence>>

\* mutant: every new row gets the id 1
insertedRow_constantId(params, created_at) ==
  [id |-> 1, player_name |-> toText(params[1]),
   score |-> toInteger(params[2]), tries |-> toInteger(params[3]),
   matches |-> toInteger(params[4]), created_at |-> created_at]

\* the row that INSERT INTO game_results (player_name, score, tries, matches)
\* stores: id from AUTOINCREMENT, created_at from its DEFAULT
insertedRow(params, created_at) ==
  [id |-> sqlite_sequence + 1, player_name |-> toText(params[1]),
   score |-> toInteger(params[2]), tries |-> toInteger(params[3]),
   matches |-> toInteger(params[4]), created_at |-> created_at]

\* mutant: the answer carries the number of rows stored before the insert
insertAnswer_countsRows(lastID, params) ==
  [id |-> Len(rows), player_name |-> params[1], score |-> params[2],
   tries |-> params[3], matches |-> params[4],
   message |-> "Result saved successfully"]

\* res.json({id: this.lastID, player_name: player_name || 'Anonymous', score,
\*           tries, matches, message: 'Result saved successfully'})
insertAnswer(lastID, params) ==
  [id |-> lastID, player_name |-> params[1], score |-> params[2],
   tries |-> params[3], matches |-> params[4],
   message |-> "Result saved successfully"]

\* mutant: the statement replaces the table's rows by the new row
insertCallback_replaces(k) ==
  /\ k \in 1..Len(dbq)
  /\ dbq[k].sql = "INSERT"
  /\ \E err \in BOOLEAN :
       IF err
       THEN /\ responses' = Append(responses,
                 Response(dbq[k].to, dbq[k].path, 500,
                          [error |-> "SQLITE_ERROR"]))
            /\ UNCHANGED <<rows, sqlite_sequence>>
       ELSE \E created_at \in CURRENT_TIMESTAMP(rows) :
              LET row == insertedRow(dbq[k].params, created_at)
              IN
              /\ rows' = <<row>>
              /\ sqlite_sequence' = row.id
              /\ responses' = Append(responses,
                   Response(dbq[k].to, dbq[k].path, 200,
                            insertAnswer(row.id, dbq[k].params)))
  /\ dbq' = RemoveAt(dbq, k)
  /\ UNCHANGED <<board, showNameInput, timers, budget, form, requests>>

\* the statement of db.run executes and its callback answers the request
insertCallback(k) ==
  /\ k \in 1..Len(dbq)
  /\ dbq[k].sql = "INSERT"
  /\ \E err \in BOOLEAN :
       IF err
       THEN /\ responses' = Append(responses,
                 Response(dbq[k].to, dbq[k].path, 500,
                          [error |-> "SQLITE_ERROR"]))
            /\ UNCHANGED <<rows, sqlite_sequence>>
       ELSE \E created_at \in CURRENT_TIMESTAMP(rows) :
              LET row == insertedRow(dbq[k].params, created_at)
              IN
              /\ rows' = Append(rows, row)
              /\ sqlite_sequence' = row.id
              /\ responses' = Append(responses,
                   Response(dbq[k].to, dbq[k].path, 200,
                            insertAnswer(row.id, dbq[k].params)))
  /\ dbq' = RemoveAt(dbq, k)
  /\ UNCHANGED <<board, showNameInput, timers, budget, form, requests>>

\* app.get('/api/results') up to db.all
getResults(i) ==
  /\ i \in 1..Len(requests)
  /\ requests[i].path = GET_RESULTS
  /\ dbq' = Append(dbq, Statement("RECENT", <<>>, requests[i]))
  /\ requests' = RemoveAt(requests, i)
  /\ UNCHANGED <<board, showNameInput, timers, budget, form, responses, rows,
                 sqlite_sequence>>

\* app.get('/api/leaderboard') up to db.all
getLeaderboard(i) ==
  /\ i \in 1..Len(requests)
  /\ requests[i].path = GET_LEADERBOARD
  /\ dbq' = Append(dbq, Statement("LEADERBOARD", <<>>, requests[i]))
  /\ requests' = RemoveAt(requests, i)
  /\ UNCHANGED <<board, showNameInput, timers, budget, form, responses, rows,
                 sqlite_sequence>>

\* mutant: a failed SELECT is answered with status 503
selectCallback_unavailable(k, result) ==
  /\ k \in 1..Len(dbq)
  /\ \E err \in BOOLEAN :
       IF err
       THEN responses' = Append(responses,
              Response(dbq[k].to, dbq[k].path, 503, [error |-> "SQLITE_ERROR"]))
       ELSE \E data \in result :
              responses' = Append(responses,
                Response(dbq[k].to, dbq[k].path, 200, data))
  /\ dbq' = RemoveAt(dbq, k)
  /\ UNCHANGED <<board, showNameInput, timers, budget, form, requests, rows,
                 sqlite_sequence>>

\* the callback of db.all, for either SELECT: status 500 with the error, or
\* the rows
selectCallback(k, result) ==
  /\ k \in 1..Len(dbq)
  /\ \E err \in BOOLEAN :
       IF err
       THEN responses' = Append(responses,
              Response(dbq[k].to, dbq[k].path, 500, [error |-> "SQLITE_ERROR"]))
       ELSE \E data \in result :
              responses' = Append(responses,
                Response(dbq[k].to, dbq[k].path, 200, data))
  /\ dbq' = RemoveAt(dbq, k)
  /\ UNCHANGED <<board, showNameInput, timers, budget, form, requests, rows,
                 sqlite_sequence>>

\* SELECT * FROM game_results ORDER BY created_at DESC LIMIT 50
selectRecent ==
  { limit(s, RecentLimit) :
      s \in orderBy(rows, [a, b \in 1..Len(rows) |->
                             recentBefore(rows[a], rows[b])]) }

\* SELECT * FROM game_results ORDER BY score DESC, tries ASC LIMIT 10
selectLeaderboard ==
  { limit(s, LeaderboardLimit) :
      s \in orderBy(rows, [a, b \in 1..Len(rows) |->
                             leaderboardBefore(rows[a], rows[b])]) }

resultsCallback(k) ==
  /\ k \in 1..Len(dbq)
  /\ dbq[k].sql = "RECENT"
  /\ selectCallback(k, selectRecent)

leaderboardCallback(k) ==
  /\ k \in 1..Len(dbq)
  /\ dbq[k].sql = "LEADERBOARD"
  /\ selectCallback(k, selectLeaderboard)

(* --------------------------- other sessions --------------------------- *)
\* a well-formed body, and the values that replace one of its fields
validBody ==
  [player_name |-> Str(<<"A">>), score |-> Num(10), tries |-> Num(2),
   matches |-> Num(2)]

NameValues == { Undefined, Null, Str(<<>>), Str(<<" ">>), Num(7) }
NumberValues == { Undefined, Null, Num(0), Str(<<"x">>) }

Bodies ==
  {validBody}
    \cup { [validBody EXCEPT !.player_name = v] : v \in NameValues }
    \cup { [validBody EXCEPT ![f] = v] :
             f \in {"score", "tries", "matches"}, v \in NumberValues }

\* a session other than the client posts a body
otherPost(body) ==
  /\ budget > 0
  /\ budget' = budget - 1
  /\ requests' = Append(requests, Request("other", POST_RESULTS, body))
  /\ UNCHANGED <<board, showNameInput, timers, form, responses, store>>

\* a session other than the client reads one of the two listings
otherGet(path) ==
  /\ budget > 0
  /\ budget' = budget - 1
  /\ requests' = Append(requests, Request("other", path, Undefined))
  /\ UNCHANGED <<board, showNameInput, timers, form, responses, store>>

\* the other session receives its answer
otherReceive(i) ==
  /\ i \in 1..Len(responses)
  /\ responses[i].to = "other"
  /\ responses' = RemoveAt(responses, i)
  /\ UNCHANGED <<board, showNameInput, timers, budget, form, requests, store>>

(* ------------------------------ Next ---------------------------------- *)
Next ==
  \/ initializeGame
  \/ \E cardId \in CardIds : handleCardClick(cardId)
  \/ \E i \in 1..Len(timers) : matchTimeout(i)
  \/ \E i \in 1..Len(timers) : mismatchTimeout(i)
  \/ Tick
  \/ \E value \in Names : setPlayerName(value)
  \/ saveResult
  \/ \E i \in 1..Len(responses) : saveResultThen(i)
  \/ \E i \in 1..Len(responses) : saveResultCatch(i)
  \/ \E i \in 1..Len(responses) : fetchLeaderboardDone(i)
  \/ \E i \in 1..Len(requests) : postResults(i)
  \/ \E i \in 1..Len(requests) : getLeaderboard(i)
  \/ \E k \in 1..Len(dbq) : insertCallback(k)
  \/ \E k \in 1..Len(dbq) : leaderboardCallback(k)

Spec == Init /\ [][Next]_vars

\* The same program observed for one event more: a run that completes a
\* game, starts a new one and resolves a pair in it.
InitLong ==
  /\ cards \in Shuffles
  /\ flippedCards = <<>>
  /\ matchedPairs = <<>>
  /\ score = 0
  /\ tries = 0
  /\ gameOver = FALSE
  /\ showNameInput = FALSE
  /\ timers = <<>>
  /\ budget = NumPairs + 2
  /\ playerName = <<>>
  /\ leaderboard = <<>>
  /\ notice = ""
  /\ requests = <<>>
  /\ responses = <<>>
  /\ dbq = <<>>
  /\ rows = <<>>
  /\ sqlite_sequence = 0

SpecLong == InitLong /\ [][Next]_vars

\* The board on its own: clicks on cards and on New Game, and the timers.
NextBoard ==
  \/ initializeGame
  \/ \E cardId \in CardIds : handleCardClick(cardId)
  \/ \E i \in 1..Len(timers) : matchTimeout(i)
  \/ \E i \in 1..Len(timers) : mismatchTimeout(i)
  \/ Tick

\* The browser runs a setTimeout callback once its delay has passed, and time
\* passes.
Fairness ==
  /\ WF_vars(Tick)
  /\ WF_vars(\E i \in 1..Len(timers) : matchTimeout(i))
  /\ WF_vars(\E i \in 1..Len(timers) : mismatchTimeout(i))

SpecFair == Init /\ [][NextBoard]_vars /\ Fairness

\* The board observed from a New Game click that was made while the
\* flip-back of a mismatch was outstanding: in the game before, the cards 0
\* and 1 (two different symbols) were revealed, and New Game was clicked
\* before the flip-back ran.
StaleStart(events) ==
  /\ cards \in Shuffles
  /\ flippedCards = <<>>
  /\ matchedPairs = <<>>
  /\ score = 0
  /\ tries = 0
  /\ gameOver = FALSE
  /\ showNameInput = FALSE
  /\ \E dealt \in Shuffles :
       timers = << Timeout("mismatch", MismatchDelay,
                           flipCard(flipCard(dealt, 0), 1),
                           find(dealt, 0).pokemonId, <<0, 1>>, <<>>) >>
  /\ budget = events
  /\ playerName = <<>>
  /\ leaderboard = <<>>
  /\ notice = ""
  /\ requests = <<>>
  /\ responses = <<>>
  /\ dbq = <<>>
  /\ rows = <<>>
  /\ sqlite_sequence = 0

\* one event fewer than MaxEvents, the New Game click having been made
InitStale == StaleStart(MaxEvents - 1)

SpecStale == InitStale /\ [][NextBoard]_vars

\* The same start with the events left after one pair of the game before,
\* under the fairness of the timers.
InitPending == StaleStart(MaxEvents - 2)

SpecPending == InitPending /\ [][NextBoard]_vars /\ Fairness

\* The result store on its own, serving sessions that send any request.
InitStore ==
  /\ cards = <<>>
  /\ flippedCards = <<>>
  /\ matchedPairs = <<>>
  /\ score = 0
  /\ tries = 0
  /\ gameOver = FALSE
  /\ showNameInput = FALSE
  /\ timers = <<>>
  /\ budget = MaxRequests
  /\ playerName = <<>>
  /\ leaderboard = <<>>
  /\ notice = ""
  /\ requests = <<>>
  /\ responses = <<>>
  /\ dbq = <<>>
  /\ rows = <<>>
  /\ sqlite_sequence = 0

NextStore ==
  \/ \E body \in Bodies : otherPost(body)
  \/ \E path \in {GET_RESULTS, GET_LEADERBOARD} : otherGet(path)
  \/ \E i \in 1..Len(responses) : otherReceive(i)
  \/ \E i \in 1..Len(requests) : postResults(i)
  \/ \E i \in 1..Len(requests) : getResults(i)
  \/ \E i \in 1..Len(requests) : getLeaderboard(i)
  \/ \E k \in 1..Len(dbq) : insertCallback(k)
  \/ \E k \in 1..Len(dbq) : resultsCallback(k)
  \/ \E k \in 1..Len(dbq) : leaderboardCallback(k)

SpecStore == InitStore /\ [][NextStore]_vars

(* --------------------------- stored tables ---------------------------- *)
\* Number of rows a table holds beyond the LIMIT of a listing.
ExtraRows == 1

\* a row as a well-formed insert stores it
storedRow(id, score_, tries_, created_at) ==
  [id |-> id, player_name |-> Str(<<"A">>), score |-> Num(score_),
   tries |-> Num(tries_), matches |-> Num(Len(POKEMON_IDS) + 1),
   created_at |-> created_at]

\* A table of L rows inserted one per second, whose scores cycle through
\* three values and whose tries all differ, rising or falling with the id;
\* with `tie`, the last row was inserted in the second of the row before it
\* and has its score and tries.
Table(L, rising, tie) ==
  [k \in 1..L |->
     LET j == IF tie /\ k = L /\ L > 1 THEN k - 1 ELSE k
     IN storedRow(k, 10 * (j % 3), IF rising THEN j ELSE L + 1 - j, j)]

\* the stored results (50,4), (50,2), (30,1)
exampleTable ==
  <<storedRow(1, 50, 4, 1), storedRow(2, 50, 2, 1), storedRow(3, 30, 1, 2)>>

TableLengths ==
  0..3 \cup { LeaderboardLimit, LeaderboardLimit + ExtraRows,
              RecentLimit, RecentLimit + ExtraRows }

Tables ==
  { Table(L, rising, tie) : L \in TableLengths, rising \in BOOLEAN,
                            tie \in BOOLEAN }
    \cup { exampleTable }

\* The result store holding a table, serving sessions that read.
InitRead ==
  /\ cards = <<>>
  /\ flippedCards = <<>>
  /\ matchedPairs = <<>>
  /\ score = 0
  /\ tries = 0
  /\ gameOver = FALSE
  /\ showNameInput = FALSE
  /\ timers = <<>>
  /\ budget = MaxRequests
  /\ playerName = <<>>
  /\ leaderboard = <<>>
  /\ notice = ""
  /\ requests = <<>>
  /\ responses = <<>>
  /\ dbq = <<>>
  /\ rows \in Tables
  /\ sqlite_sequence = Len(rows)

NextRead ==
  \/ \E path \in {GET_RESULTS, GET_LEADERBOARD} : otherGet(path)
  \/ \E i \in 1..Len(responses) : otherReceive(i)
  \/ \E i \in 1..Len(requests) : getResults(i)
  \/ \E i \in 1..Len(requests) : getLeaderboard(i)
  \/ \E k \in 1..Len(dbq) : resultsCallback(k)
  \/ \E k \in 1..Len(dbq) : leaderboardCallback(k)

SpecRead == InitRead /\ [][NextRead]_vars

(* --------------------------- derived notions -------------------------- *)
\* ids of the cards that are revealed: flipped and not matched
revealedIds(cs) ==
  { cs[k].id : k \in { j \in 1..Len(cs) : cs[j].isFlipped /\ ~cs[j].isMatched } }

\* ids of the cards flagged matched
matchedIds(cs) ==
  { cs[k].id : k \in { j \in 1..Len(cs) : cs[j].isMatched } }

\* ids of the cards that carry a symbol
idsOfSymbol(cs, pokemonId) ==
  { cs[k].id : k \in { j \in 1..Len(cs) : cs[j].pokemonId = pokemonId } }

\* a hidden card: neither flipped nor matched
isHidden(card) == ~card.isFlipped /\ ~card.isMatched

\* the step is a New Game click
NewGameStep == initializeGame

\* the step runs a setTimeout callback
TimeoutStep ==
  \E i \in 1..Len(timers) : matchTimeout(i) \/ mismatchTimeout(i)

\* the step is a click that is accepted as the second reveal of a pair
AcceptedSecondReveal(cardId) ==
  /\ Len(flippedCards) = 1
  /\ ~ignoreClick(find(cards, cardId))
  /\ handleCardClick(cardId)

\* the step is an accepted second reveal whose card carries the symbol of the
\* first pending card
MatchingReveal(cardId) ==
  /\ AcceptedSecondReveal(cardId)
  /\ find(cards, flippedCards[1]).pokemonId = find(cards, cardId).pokemonId

\* two cards of different symbols are pending
PendingMismatch ==
  /\ Len(flippedCards) = 2
  /\ find(cards, flippedCards[1]).pokemonId
       # find(cards, flippedCards[2]).pokemonId

\* two cards of the same symbol are pending
PendingMatch ==
  /\ Len(flippedCards) = 2
  /\ find(cards, flippedCards[1]).pokemonId
       = find(cards, flippedCards[2]).pokemonId

(* ------------------------------ claims -------------------------------- *)

\* C1: in every reachable state flippedCards holds at most 2 card ids and at
\* most two cards are revealed (flipped and not matched).
C1_PendingAtMostTwo ==
  /\ Len(flippedCards) <= 2
  /\ Cardinality(revealedIds(cards)) <= 2

\* C1 witness: after a New Game, with a callback of the previous game still
\* outstanding next to the current one, two cards are pending and revealed.
C1_Witness ==
  /\ Len(timers) = 2
  /\ timers[1].newFlippedCards # flippedCards
  /\ timers[2].newFlippedCards = flippedCards
  /\ Len(flippedCards) = 2
  /\ Cardinality(revealedIds(cards)) = 2

\* C2: while two cards are pending, a click on any card is a no-op: cards,
\* flippedCards, matchedPairs, score, tries and gameOver are unchanged (and
\* nothing is scheduled).
C2_ThirdClickNoOp ==
  [][\A cardId \in CardIds :
       (Len(flippedCards) = 2 /\ handleCardClick(cardId))
         => UNCHANGED <<board, showNameInput, timers>>]_vars

\* C2 witness: two cards are pending and a third card is hidden and of an
\* unmatched symbol, so that the click on it is refused only because two
\* cards are pending.
C2_Witness ==
  /\ Len(flippedCards) = 2
  /\ \E cardId \in CardIds :
       /\ isHidden(find(cards, cardId))
       /\ ~includes(matchedPairs, find(cards, cardId).pokemonId)
       /\ ignoreClick(find(cards, cardId))

\* C3: within one game (no New Game click in the step) a card that is matched
\* stays matched across every click and every timer firing.
C3_MatchedStaysMatched ==
  [][~NewGameStep =>
       \A cardId \in CardIds :
         find(cards, cardId).isMatched => find(cards', cardId).isMatched]_vars

\* C4: a matching second reveal adds exactly 10 to score and exactly 1 to
\* matchedCount, and its resolution marks exactly the two cards of that symbol
\* as matched: the cards flagged matched afterwards are those flagged before
\* plus the two cards of the symbol.
C4_MatchResolution ==
  [][/\ \A cardId \in CardIds :
          MatchingReveal(cardId) =>
            /\ score' = score + 10
            /\ Len(matchedPairs') = Len(matchedPairs) + 1
     /\ \A i \in 1..Len(timers) :
          matchTimeout(i) =>
            /\ Cardinality(idsOfSymbol(cards', timers[i].pokemonId)) = 2
            /\ matchedIds(cards')
                 = matchedIds(cards)
                     \cup idsOfSymbol(cards, timers[i].pokemonId)]_vars

\* C5 (as stated): directly after a matching second reveal flippedCards is
\* empty.
C5_ClearedImmediately ==
  [][\A cardId \in CardIds :
       MatchingReveal(cardId) => flippedCards' = <<>>]_vars

\* C5 (amended): directly after a matching second reveal flippedCards still
\* holds both card ids and every click is ignored; while two cards are
\* pending, flippedCards changes only by being emptied in a setTimeout
\* callback or a New Game click.
C5_ClearedByTimeout ==
  [][/\ \A cardId \in CardIds :
          MatchingReveal(cardId) =>
            /\ flippedCards' = <<flippedCards[1], cardId>>
            /\ \A other \in CardIds : ignoreClick(find(cards, other))'
     /\ (Len(flippedCards) = 2 /\ flippedCards' # flippedCards) =>
          /\ flippedCards' = <<>>
          /\ TimeoutStep \/ NewGameStep]_vars

\* C5 witness: a matching second reveal has just been accepted, its two cards
\* are still pending, and another card is still hidden.
C5_Witness ==
  /\ PendingMatch
  /\ timers # <<>>
  /\ timers[Len(timers)].kind = "match"
  /\ timers[Len(timers)].remaining = MatchDelay
  /\ timers[Len(timers)].newFlippedCards = flippedCards
  /\ includes(matchedPairs, find(cards, flippedCards[1]).pokemonId)
  /\ \E other \in CardIds :
       /\ isHidden(find(cards, other))
       /\ ~includes(matchedPairs, find(cards, other).pokemonId)

\* C6: after a mismatching second reveal both cards stay revealed and
\* flippedCards stays as it is until the flip-back callback runs (New Game
\* aside); the flip-back sets exactly those two cards back to hidden, empties
\* flippedCards and leaves score and matchedPairs unchanged.
C6_MismatchHeldUntilFlipBack ==
  [][/\ (/\ PendingMismatch
         /\ ~NewGameStep
         /\ ~\E i \in 1..Len(timers) : mismatchTimeout(i)) =>
          /\ flippedCards' = flippedCards
          /\ flippedCards[1] \in revealedIds(cards')
          /\ flippedCards[2] \in revealedIds(cards')
     /\ \A i \in 1..Len(timers) :
          (PendingMismatch /\ mismatchTimeout(i)) =>
            /\ flippedCards' = <<>>
            /\ \A cardId \in CardIds :
                 find(cards', cardId) =
                   IF includes(flippedCards, cardId)
                   THEN [find(cards, cardId) EXCEPT !.isFlipped = FALSE]
                   ELSE find(cards, cardId)
            /\ score' = score
            /\ matchedPairs' = matchedPairs]_vars

\* C7: tries increases by exactly 1 at each accepted second reveal, matching
\* or not, and changes at no other event of a game: not at a first reveal,
\* an ignored click or a timer firing.
C7_TriesPerResolution ==
  [][/\ \A cardId \in CardIds :
          AcceptedSecondReveal(cardId) => tries' = tries + 1
     /\ tries' # tries =>
          \/ NewGameStep
          \/ \E cardId \in CardIds : AcceptedSecondReveal(cardId)]_vars

\* C7 witness: a game in which one pair matched and one pair did not, the
\* second of the two resolutions still pending.
C7_Witness ==
  /\ tries = 2
  /\ Len(matchedPairs) = 1
  /\ Len(flippedCards) = 2
  /\ timers # <<>>
  /\ timers[Len(timers)].newFlippedCards = flippedCards

\* C8: in every reachable state gameOver implies that matchedPairs holds
\* every pair (matchedPairs.length == POKEMON_IDS.length).
C8_GameOverOnlyWhenAllMatched ==
  gameOver => Len(matchedPairs) = Len(POKEMON_IDS)

\* C9: once gameOver is true every card click is a no-op: no card flag,
\* counter or pending set changes.
C9_NoOpAfterGameOver ==
  [][\A cardId \in CardIds :
       (gameOver /\ handleCardClick(cardId))
         => UNCHANGED <<board, showNameInput, timers>>]_vars

\* the board of a game that has just been dealt
FreshBoard ==
  /\ Len(cards) = 2 * Len(POKEMON_IDS)
  /\ \A i, j \in 1..Len(cards) : cards[i].id = cards[j].id => i = j
  /\ \A s \in 1..Len(POKEMON_IDS) :
       Cardinality(idsOfSymbol(cards, POKEMON_IDS[s])) = 2
  /\ \A k \in 1..Len(cards) :
       /\ includes(POKEMON_IDS, cards[k].pokemonId)
       /\ isHidden(cards[k])
  /\ flippedCards = <<>>
  /\ matchedPairs = <<>>
  /\ score = 0
  /\ tries = 0
  /\ gameOver = FALSE

\* C10: directly after the mount and directly after every New Game click the
\* board has exactly 2 x POKEMON_IDS.length cards with distinct ids, every
\* symbol is on exactly two cards, all cards are hidden and unmatched,
\* flippedCards and matchedPairs are empty, score and tries are zero and
\* gameOver is false, whatever the shuffle outcome.
C10_NewGameFreshBoard ==
  FreshBoard /\ [][initializeGame => FreshBoard']_vars

\* C10 witness: a board just dealt by New Game in the middle of a game (the
\* callback of a counted try is still outstanding), in rearranged order.
C10_Witness ==
  /\ FreshBoard
  /\ timers # <<>>
  /\ cards[1].id # 0

\* the step is a Save Score click that sends the POST
SaveSends == saveResult /\ requests' # requests

\* the step is saveResult resuming after its await on answer i
SaveResumes(i) == saveResultThen(i) \/ saveResultCatch(i)

\* every pair of the board is in matchedPairs
BoardComplete == Len(matchedPairs) = Len(POKEMON_IDS)

\* C11: whenever the save form is shown the board is complete (matchedCount
\* equals the pair count), and on an incomplete board a Save Score click
\* posts nothing.
C11_SaveOnlyWhenComplete ==
  /\ [](formShown => BoardComplete)
  /\ [][(saveResult /\ ~BoardComplete) => requests' = requests]_vars

\* C12: Save Score with a player name that is empty after trimming sends no
\* request, stores no row and leaves the game state, the save form included,
\* unchanged.
C12_BlankNameRejected ==
  [][(trim(playerName) = <<>> /\ saveResult) =>
       UNCHANGED <<board, showNameInput, playerName, leaderboard, timers,
                   net, store>>]_vars

\* C12 witness: the form is shown, the name typed is white space only, the
\* click has been answered with the request to enter a name, and nothing was
\* sent or stored.
C12_Witness ==
  /\ formShown
  /\ playerName = <<" ">>
  /\ notice = "Please enter your name"
  /\ requests = <<>>
  /\ dbq = <<>>
  /\ rows = <<>>

\* C13: the result that is sent mirrors the board: its score is the board's
\* score, its tries the board's tries and its matches the number of matched
\* pairs.
C13_ResultMirrorsBoard ==
  [][SaveSends =>
       LET body == requests'[Len(requests')].body
       IN
       /\ body.score = Num(score)
       /\ body.tries = Num(tries)
       /\ body.matches = Num(Len(matchedPairs))]_vars

\* C14: saveResult does not change the board: cards, flippedCards,
\* matchedPairs, score, tries and gameOver are the same before and after the
\* click and before and after it resumes, whether the save succeeded or
\* failed.
C14_SaveLeavesBoard ==
  [][(saveResult \/ \E i \in 1..Len(responses) : SaveResumes(i))
       => UNCHANGED board]_vars

\* C14 witness: a result of a completed game has been saved and the client
\* has been told so; the completed board is still there.
C14_Witness ==
  /\ notice = "Result saved successfully!"
  /\ rows # <<>>
  /\ gameOver
  /\ BoardComplete
  /\ score = MatchReward * Len(POKEMON_IDS)

\* C15: when the answer to the save has a status outside 2xx, the client
\* shows the failure notice, leaves the save form as it is and sends no
\* leaderboard request.
C15_FailureNotSuccess ==
  [][\A i \in 1..Len(responses) :
       (/\ responses[i].to = "app"
        /\ responses[i].path = POST_RESULTS
        /\ ~(responses[i].status \in 200..299)
        /\ SaveResumes(i)) =>
          /\ notice' = "Error saving result. Please try again."
          /\ UNCHANGED <<showNameInput, gameOver, requests, leaderboard>>]_vars

\* C15 witness: the save was answered with status 500 and the client shows
\* the failure notice next to the save form; no row was stored.
C15_Witness ==
  /\ notice = "Error saving result. Please try again."
  /\ formShown
  /\ requests = <<>>
  /\ responses = <<>>
  /\ rows = <<>>

\* the four fields of a result
Fields == {"player_name", "score", "tries", "matches"}

\* the answer of the store to a body that is refused
Refusal(request) ==
  Response(request.from, POST_RESULTS, 400,
           [error |-> "Missing required fields"])

\* C16: POST /api/results with any of player_name, score, tries or matches
\* missing is answered with status 400 and the error 'Missing required
\* fields', and no row is stored or queued for storing.
C16_MissingFieldRejected ==
  [][\A i \in 1..Len(requests) :
       (/\ postResults(i)
        /\ \E f \in Fields : requests[i].body[f] = Undefined) =>
          /\ responses' = Append(responses, Refusal(requests[i]))
          /\ UNCHANGED store]_vars

\* C16 witness: the one request sent so far has been refused with status
\* 400, and the table is empty.
C16_Witness ==
  /\ budget = MaxRequests - 1
  /\ requests = <<>>
  /\ responses = <<Refusal(Request("other", POST_RESULTS, validBody))>>
  /\ store = <<<<>>, <<>>, 0>>

\* a field that is present has the shape of its column: player_name a
\* string, score, tries and matches numbers
WrongShape(body) ==
  \/ /\ body.player_name # Undefined
     /\ body.player_name.t # "string"
  \/ \E f \in {"score", "tries", "matches"} :
       /\ body[f] # Undefined
       /\ body[f].t # "number"

\* C17: a POST whose body has a field of the wrong shape is answered with
\* status 400 and nothing is stored or queued for storing.
C17_WrongShapeRejected ==
  [][\A i \in 1..Len(requests) :
       (postResults(i) /\ WrongShape(requests[i].body)) =>
          /\ responses' = Append(responses, Refusal(requests[i]))
          /\ UNCHANGED store]_vars

\* C18: every stored row has a player_name that is a string and is not empty
\* after trimming.
C18_StoredNameNotBlank ==
  \A k \in 1..Len(rows) :
    /\ rows[k].player_name.t = "string"
    /\ trim(rows[k].player_name.s) # <<>>

\* C19: the ids of the stored rows strictly increase in the order of
\* insertion, so that every insert gets an id greater than every id assigned
\* before it and no two rows share an id, whatever the interleaving of the
\* requests.
C19_IdsStrictlyIncrease ==
  \A a, b \in 1..Len(rows) : a < b => rows[a].id < rows[b].id

\* C19 witness: two rows were inserted while both requests were on their way:
\* the answer to the first insert had not been received when the second
\* insert was answered.
C19_Witness ==
  /\ Len(rows) = 2
  /\ Len(responses) = 2
  /\ \A i \in 1..2 :
       /\ responses[i].path = POST_RESULTS
       /\ responses[i].status = 200
       /\ responses[i].data.id = rows[i].id

\* the step is a successful insert
InsertSucceeds ==
  /\ \E k \in 1..Len(dbq) : insertCallback(k)
  /\ responses'[Len(responses')].status = 200

\* C20: the table is append-only: every step keeps every stored row as it is
\* and in its place; a successful insert adds exactly one row and every other
\* step (a read, a refused or failed insert) leaves the table as it is.
C20_AppendOnly ==
  [][/\ Len(rows') >= Len(rows)
     /\ SubSeq(rows', 1, Len(rows)) = rows
     /\ IF InsertSucceeds
        THEN Len(rows') = Len(rows) + 1
        ELSE rows' = rows]_vars

\* C20 witness: one row is stored, and another insert was refused or failed.
C20_Witness ==
  /\ Len(rows) = 1
  /\ budget = 0
  /\ \E i \in 1..Len(responses) :
       /\ responses[i].path = POST_RESULTS
       /\ responses[i].status \in {400, 500}

\* the row stored and the answer given by the step's successful insert
InsertedRow == rows'[Len(rows')]

InsertAnswer == responses'[Len(responses')].data

\* C21 (as stated): a successful insert answers with the stored row: its id,
\* its created_at and the four submitted fields as they were stored.
C21_ReturnsStoredRow ==
  [][InsertSucceeds =>
       /\ "created_at" \in DOMAIN InsertAnswer
       /\ \A f \in DOMAIN InsertedRow : InsertAnswer[f] = InsertedRow[f]]_vars

\* C21 (amended): a successful insert answers with the id of the stored row,
\* the four fields as they were submitted and a confirmation message, and
\* with no created_at; a submitted player_name that is a string and a
\* submitted score, tries or matches that is a number are equal to what was
\* stored.
C21_ReturnsIdAndSubmitted ==
  [][InsertSucceeds =>
       /\ DOMAIN InsertAnswer = Fields \cup {"id", "message"}
       /\ InsertAnswer.id = InsertedRow.id
       /\ InsertAnswer.message = "Result saved successfully"
       /\ \E k \in 1..Len(dbq) :
            /\ insertCallback(k)
            /\ InsertAnswer.player_name = dbq[k].params[1]
            /\ InsertAnswer.score = dbq[k].params[2]
            /\ InsertAnswer.tries = dbq[k].params[3]
            /\ InsertAnswer.matches = dbq[k].params[4]
       /\ InsertAnswer.player_name.t = "string"
            => InsertedRow.player_name = InsertAnswer.player_name
       /\ \A f \in {"score", "tries", "matches"} :
            InsertAnswer[f].t = "number" => InsertedRow[f] = InsertAnswer[f]]_vars

\* C21 witness: the second row has been stored and the answer that carries
\* its id is on its way.
C21_Witness ==
  /\ Len(rows) = 2
  /\ responses # <<>>
  /\ responses[Len(responses)].path = POST_RESULTS
  /\ responses[Len(responses)].status = 200
  /\ responses[Len(responses)].data.id = 2
  /\ rows[2].id = 2

\* the step answers GET /api/results with status 200
ResultsAnswered ==
  /\ \E k \in 1..Len(dbq) : resultsCallback(k)
  /\ responses'[Len(responses')].status = 200

\* the step answers GET /api/leaderboard with status 200
LeaderboardAnswered ==
  /\ \E k \in 1..Len(dbq) : leaderboardCallback(k)
  /\ responses'[Len(responses')].status = 200

\* the listing that the step's answer carries
Listing == responses'[Len(responses')].data

\* s holds rows of the table, none of them twice
ListsStoredRows(s) ==
  /\ \A i \in 1..Len(s) : \E k \in 1..Len(rows) : rows[k] = s[i]
  /\ \A i, j \in 1..Len(s) : s[i].id = s[j].id => i = j

\* the rows of the table that s leaves out
LeftOut(s) ==
  { rows[k] : k \in { n \in 1..Len(rows) : \A i \in 1..Len(s) : s[i] # rows[n] } }

C23_ListingStartsWithLastInsert ==
  [][(ResultsAnswered /\ rows # <<>>) => Listing[1] = rows[Len(rows)]]_vars

\* r1 ranks above r2: a higher score, or the same score in fewer tries
RanksAbove(r1, r2) ==
  \/ r1.score.n > r2.score.n
  \/ /\ r1.score.n = r2.score.n
     /\ r1.tries.n < r2.tries.n

\* C24: GET /api/leaderboard answers with at most 10 stored rows (all of them
\* when fewer than 10 are stored), no row ranking above a row listed before
\* it, and no row left out ranking above a row listed; on the stored results
\* (50,4), (50,2), (30,1) the listing is (50,2), (50,4), (30,1).
C24_Leaderboard ==
  [][LeaderboardAnswered =>
       /\ ListsStoredRows(Listing)
       /\ Len(Listing) = IF Len(rows) < 10 THEN Len(rows) ELSE 10
       /\ \A i, j \in 1..Len(Listing) :
            i < j => ~RanksAbove(Listing[j], Listing[i])
       /\ \A r \in LeftOut(Listing) :
            \A i \in 1..Len(Listing) : ~RanksAbove(r, Listing[i])
       /\ rows = exampleTable => Listing = <<rows[2], rows[1], rows[3]>>]_vars

\* C24 witness: more than 10 rows are stored and a leaderboard of 10 rows has
\* been sent, headed by a row of the highest score stored.
C24_Witness ==
  /\ Len(rows) > 10
  /\ \E i \in 1..Len(responses) :
       /\ responses[i].path = GET_LEADERBOARD
       /\ responses[i].status = 200
       /\ Len(responses[i].data) = 10
       /\ \A k \in 1..Len(rows) :
            rows[k].score.n <= responses[i].data[1].score.n

CallbackRuns(k) ==
  insertCallback(k) \/ resultsCallback(k) \/ leaderboardCallback(k)

\* C26: the callback of a statement of any of the three endpoints answers the
\* request once and the statement is gone (it is not run again and no request
\* is sent again); the answer has either status 500, an error message as its
\* body and no row stored, or status 200, in which case an insert has stored
\* its row.
C26_StorageFailure ==
  [][\A k \in 1..Len(dbq) :
       CallbackRuns(k) =>
         LET answer == responses'[Len(responses')]
         IN
         /\ responses' = Append(responses, answer)
         /\ answer.to = dbq[k].to
         /\ answer.path = dbq[k].path
         /\ dbq' = RemoveAt(dbq, k)
         /\ requests' = requests
         /\ \/ /\ answer.status = 500
               /\ DOMAIN answer.data = {"error"}
               /\ answer.data.error # ""
               /\ UNCHANGED <<rows, sqlite_sequence>>
            \/ /\ answer.status = 200
               /\ IF dbq[k].sql = "INSERT"
                  THEN Len(rows') = Len(rows) + 1
                  ELSE rows' = rows]_vars

\* C26 witness: an insert and a read have both failed: both answers have
\* status 500, nothing is stored and nothing is left to run.
C26_Witness ==
  /\ rows = <<>>
  /\ dbq = <<>>
  /\ requests = <<>>
  /\ Len(responses) = 2
  /\ responses[1].status = 500
  /\ responses[2].status = 500
  /\ responses[1].path = POST_RESULTS
  /\ responses[2].path # POST_RESULTS

\* C27: within one game (no New Game click in the step) the score changes
\* only at a matching second reveal, and then by exactly +10; it never
\* decreases.
C27_ScoreOnlyByMatch ==
  [][~NewGameStep =>
       \/ score' = score
       \/ /\ score' = score + 10
          /\ \E cardId \in CardIds : MatchingReveal(cardId)]_vars

\* C27 witness: a game with two matches and a mismatch, the score at 20.
C27_Witness ==
  /\ score = 20
  /\ tries = 3
  /\ Len(matchedPairs) = 2

AcceptedFirstReveal(cardId) ==
  /\ flippedCards = <<>>
  /\ ~ignoreClick(find(cards, cardId))
  /\ handleCardClick(cardId)

\* C29: an accepted first reveal flips that one card and leaves every other
\* card and the order of the cards as they are, makes flippedCards hold just
\* its id, leaves score, tries, matchedPairs and gameOver unchanged and
\* starts no timer.
C29_FirstRevealFrame ==
  [][\A cardId \in CardIds :
       AcceptedFirstReveal(cardId) =>
         /\ flippedCards' = <<cardId>>
         /\ Len(cards') = Len(cards)
         /\ \A k \in 1..Len(cards) :
              cards'[k] = IF cards[k].id = cardId
                          THEN [cards[k] EXCEPT !.isFlipped = TRUE]
                          ELSE cards[k]
         /\ find(cards', cardId).isFlipped
         /\ UNCHANGED <<score, tries, matchedPairs, gameOver, showNameInput,
                        timers>>]_vars

\* C29 witness: after one resolved try, a first reveal has been accepted: one
\* card is pending and revealed and no timer is outstanding.
C29_Witness ==
  /\ tries = 1
  /\ timers = <<>>
  /\ Len(flippedCards) = 1
  /\ revealedIds(cards) = {flippedCards[1]}

\* C30: in every step that is not a New Game click the sequence of cards
\* keeps its length, and every position keeps its card id and its symbol.
C30_CardOrderFixed ==
  [][~NewGameStep =>
       /\ Len(cards') = Len(cards)
       /\ \A k \in 1..Len(cards) :
            /\ cards'[k].id = cards[k].id
            /\ cards'[k].pokemonId = cards[k].pokemonId]_vars

(* ------------------------ games and their timers ---------------------- *)
\* the board as New Game leaves it, with the save form off. tries counts the
\* second reveals and a first reveal leaves its card revealed until a
\* callback overwrites cards and flippedCards, so a state like this with a
\* timer outstanding is one that New Game was clicked into and that no click
\* has changed since.
Untouched == FreshBoard /\ ~showNameInput

\* C31: as long as no card of the new game is clicked, a callback that was
\* scheduled in the game before leaves the board as New Game dealt it: every
\* card hidden and unmatched, flippedCards empty, gameOver and the save form
\* off.
C31_NewGameIsolated ==
  [][(Untouched /\ TimeoutStep) => Untouched']_vars

\* the callback i runs on the cards and the pending pair that the click which
\* scheduled it left behind
RunsOnOwnSnapshot(i) ==
  /\ cards = timers[i].updatedCards
  /\ flippedCards = timers[i].newFlippedCards

\* C32: at most one setTimeout callback is outstanding at any time, and a
\* callback that runs finds the cards and the pending pair as they were when
\* it was scheduled, so that it overwrites nothing that was produced since.
C32_OneTimerOutstanding ==
  /\ [](Len(timers) <= 1)
  /\ [][\A i \in 1..Len(timers) :
          (matchTimeout(i) \/ mismatchTimeout(i)) => RunsOnOwnSnapshot(i)]_vars

\* C33: in every reachable state score is 10 x matchedPairs.length and tries
\* is at least matchedPairs.length.
C33_ScoreAndTries ==
  /\ score = MatchReward * Len(matchedPairs)
  /\ tries >= Len(matchedPairs)

\* C33 witness: a New Game click during a game that had a matched pair, then
\* a mismatch and a match in the new game.
C33_Witness ==
  /\ budget = 0
  /\ Len(matchedPairs) = 1
  /\ tries = 2
  /\ score = MatchReward

\* C34: in every reachable state with flippedCards empty a card is flagged
\* matched if and only if its symbol is in matchedPairs, so that the number
\* of matched cards is 2 x matchedPairs.length.
C34_FlagsAgreeWithPairs ==
  flippedCards = <<>> =>
    /\ \A k \in 1..Len(cards) :
         cards[k].isMatched <=> includes(matchedPairs, cards[k].pokemonId)
    /\ Cardinality(matchedIds(cards)) = 2 * Len(matchedPairs)

\* C35: matchedPairs never contains the same symbol twice, so that its length
\* never exceeds the number of pairs and score never exceeds 10 x the number
\* of pairs, after any sequence of clicks, callbacks and New Game clicks.
C35_NoSymbolTwice ==
  /\ \A a, b \in 1..Len(matchedPairs) :
       matchedPairs[a] = matchedPairs[b] => a = b
  /\ Len(matchedPairs) <= Len(POKEMON_IDS)
  /\ score <= MatchReward * Len(POKEMON_IDS)

\* C35 witness: a symbol is in matchedPairs and both of its cards are hidden
\* again, put back by the flip-back of the game before; a click on either is
\* ignored.
C35_Witness ==
  /\ flippedCards = <<>>
  /\ \E k \in 1..Len(cards) :
       /\ includes(matchedPairs, cards[k].pokemonId)
       /\ \A j \in 1..Len(cards) :
            cards[j].pokemonId = cards[k].pokemonId => isHidden(cards[j])
       /\ ignoreClick(cards[k])

\* the callback that the step's second reveal has scheduled
Scheduled == timers'[Len(timers')]

\* C36: whenever two cards are pending the pending set is eventually empty
\* again, given that callbacks which are due run and time passes.  The second
\* reveal schedules the callback that empties it: with the match delay for a
\* match and the flip-back delay for a mismatch, and a callback runs only when
\* its delay has passed.
C36_PendingEventuallyCleared ==
  /\ (Len(flippedCards) = 2) ~> (flippedCards = <<>>)
  /\ [][/\ \A cardId \in CardIds :
             AcceptedSecondReveal(cardId) =>
               /\ Len(timers') = Len(timers) + 1
               /\ Scheduled.newFlippedCards = flippedCards'
               /\ Scheduled.remaining = IF MatchingReveal(cardId)
                                        THEN MatchDelay
                                        ELSE MismatchDelay
        /\ \A i \in 1..Len(timers) :
             (matchTimeout(i) \/ mismatchTimeout(i)) =>
               timers[i].remaining = 0]_vars

\* C36 witness: a pair of the new game was pending and has been cleared, and
\* the flip-back of the game before has run as well: nothing is pending and
\* no callback is outstanding.
C36_Witness ==
  /\ tries = 1
  /\ flippedCards = <<>>
  /\ timers = <<>>
  /\ revealedIds(cards) = {}

\* some card would be accepted by handleCardClick
CanReveal == \E cardId \in CardIds : ~ignoreClick(find(cards, cardId))

\* two cards are pending or a callback is outstanding
ResolutionPending == Len(flippedCards) = 2 \/ timers # <<>>

\* every card on the board is flagged matched
AllMatched == \A k \in 1..Len(cards) : cards[k].isMatched

\* C37: in every reachable state where the game is not over some card can
\* still be revealed or a resolution is pending, and once every card on the
\* board is matched the game eventually is over with the save form offered,
\* given that callbacks which are due run and time passes.
C37_GameCompletable ==
  /\ [](~gameOver => (CanReveal \/ ResolutionPending))
  /\ AllMatched ~> (gameOver /\ showNameInput)

\* a save of the app is on its way: its POST has not been handled, its insert
\* has not been run, or its answer has not been received
SaveInFlight ==
  \/ \E i \in 1..Len(requests) :
       requests[i].from = "app" /\ requests[i].path = POST_RESULTS
  \/ \E k \in 1..Len(dbq) :
       dbq[k].sql = "INSERT" /\ dbq[k].to = "app"
  \/ \E i \in 1..Len(responses) :
       responses[i].to = "app" /\ responses[i].path = POST_RESULTS

\* C38: a Save Score click sends a POST only when no save of the game is on
\* its way and none has stored a row.  (The events of a run do not reach the
\* completion of a second game, so every save and every row is of the one
\* completed game.)
C38_OneSavePerGame ==
  [][SaveSends => (~SaveInFlight /\ rows = <<>>)]_vars

\* a body with a non-empty player_name and all of score, tries and matches,
\* at least one of them 0
ZeroBody(body) ==
  /\ body.player_name.t = "string"
  /\ body.player_name.s # <<>>
  /\ \A f \in {"score", "tries", "matches"} : body[f] # Undefined
  /\ \E f \in {"score", "tries", "matches"} : body[f] = Num(0)

\* C39: a POST with a non-empty player_name and score, tries or matches equal
\* to 0 is not refused as missing: its insert is queued with the values as
\* submitted, and a successful insert stores 0 in the column of every
\* parameter that is 0.
C39_ZeroCountsAsPresent ==
  [][/\ \A i \in 1..Len(requests) :
          (postResults(i) /\ ZeroBody(requests[i].body)) =>
            /\ responses' = responses
            /\ dbq' = Append(dbq,
                 Statement("INSERT",
                           <<requests[i].body.player_name,
                             requests[i].body.score,
                             requests[i].body.tries,
                             requests[i].body.matches>>,
                           requests[i]))
     /\ \A k \in 1..Len(dbq) :
          (insertCallback(k) /\ InsertSucceeds) =>
            /\ dbq[k].params[2] = Num(0) => InsertedRow.score = Num(0)
            /\ dbq[k].params[3] = Num(0) => InsertedRow.tries = Num(0)
            /\ dbq[k].params[4] = Num(0) => InsertedRow.matches = Num(0)]_vars

\* C39 witness: a row with a 0 in score, tries or matches is stored, under
\* the name that was submitted, and the insert has been answered with 200.
C39_Witness ==
  /\ \E k \in 1..Len(rows) :
       /\ rows[k].player_name = validBody.player_name
       /\ \E f \in {"score", "tries", "matches"} : rows[k][f] = Num(0)
  /\ \E i \in 1..Len(responses) :
       /\ responses[i].path = POST_RESULTS
       /\ responses[i].status = 200
       /\ \E f \in {"score", "tries", "matches"} :
            responses[i].data[f] = Num(0)

====
